---------------------------- MODULE Spec2Model ----------------------------
(***************************************************************************)
(* clarr: orphan cleanup of a download directory (internal/cleaner), the   *)
(* triggers of cmd/clarr/main.go, and the Jellyfin webhook                 *)
(* (internal/webhook).                                                     *)
(*                                                                         *)
(* The download directory is a small fixed tree                            *)
(*     /dl/a.mkv   /dl/d/e/c.mkv                                           *)
(* whose entries may or may not exist.  Every Cleanup call is a goroutine  *)
(* that advances one filesystem operation at a time, so that other         *)
(* goroutines and other processes interleave with it.                      *)
(***************************************************************************)
EXTENDS Integers, Sequences, FiniteSets, TLC

\* ------------------------------------------------------------------ bounds
MaxRuns  == 2      \* Cleanup calls (cron ticks + POST /api/cleanup) per behaviour
MaxLive  == 2      \* Cleanup goroutines alive at the same time
MaxExt   == 1      \* filesystem operations of other processes per behaviour
MaxLinks == 2      \* largest hardlink count a file reaches

\* ------------------------------------------------------------- the tree
RootDir == "/dl"
Files   == {"/dl/a.mkv", "/dl/d/e/c.mkv"}
SubDirs == {"/dl/d", "/dl/d/e"}
Dirs    == {RootDir} \cup SubDirs

\* The entries a directory can hold, in the lexical order in which
\* os.ReadDir returns them.
Children(p) ==
    CASE p = "/dl"     -> <<"/dl/a.mkv", "/dl/d">>
      [] p = "/dl/d"   -> <<"/dl/d/e">>
      [] p = "/dl/d/e" -> <<"/dl/d/e/c.mkv">>
      [] OTHER         -> <<>>

\* File sizes: distinct powers of two, so that a sum of sizes names its files.
SizeOf == [f \in Files |-> IF f = "/dl/a.mkv" THEN 1 ELSE 2]

\* The entries the OS may refuse to remove.
LockChoices == {{}, {"/dl/a.mkv"}}

Runs == 1..MaxRuns

VARIABLES
    nlink,      \* file path -> hardlink count of its inode; 0: no such entry
    size,       \* file path -> size in bytes
    dirs,       \* the directories that exist
    locked,     \* entries whose removal the OS refuses (EPERM/EACCES)
    dryRun,     \* Cleaner.dryRun
    qbit,       \* "none": Cleaner.qbit == nil; else the adapter answers ("up") or fails ("down")
    run,        \* Cleanup call -> its goroutine's local state
    rmlog,      \* history: os.Remove calls on files that succeeded
    dirlog,     \* history: os.Remove calls on directories that succeeded
    qlog,       \* history: DeleteTorrentByPath calls
    ext,        \* number of operations other processes have done
    secret,     \* Handler.secret; <<>>: no secret configured
    nreq,       \* notifications handled so far
    last,       \* the last notification handled and the response it got
    coord,      \* notification number -> the goroutine dispatched for it
    hasFile,    \* Radarr: movie id -> hasFile
    episodeFiles,     \* Sonarr: series id -> statistics.episodeFileCount
    monitoredMovies,  \* Radarr: the movies with monitored = true
    monitoredSeries,  \* Sonarr: the series with monitored = true
    http,       \* request number -> the exchange of a request that starts work
    rescan,     \* request number -> the goroutine of POST /api/rescan
    denied,     \* directories whose listing the OS refuses (EACCES)
    kind,       \* file path -> "regular" or "symlink" (lstat's file type)
    torrents,   \* qBittorrent: the transfers it holds, in the order it lists them
    stats,      \* the handler of GET /api/stats: its scan and its response
    phase,      \* the process: "running", "signalled" (SIGINT/SIGTERM taken), "exited"
    human       \* a FreedBytesHuman call: its FreedBytes and the text it returned

cvars == <<nlink, size, dirs, locked, dryRun, qbit, torrents, run, rmlog, dirlog, qlog, ext>>
wvars == <<secret, nreq, last, coord, hasFile, episodeFiles, monitoredMovies, monitoredSeries>>
tvars == <<http, rescan>>
evars == <<denied, kind, stats, phase, human>>
vars  == <<cvars, wvars, tvars, evars>>

\* ------------------------------------------------------------ helpers
RECURSIVE SelectPresent(_, _, _)
SelectPresent(s, nl, ds) ==
    IF s = <<>> THEN <<>>
    ELSE LET h == Head(s)
             here == IF h \in Files THEN nl[h] > 0 ELSE h \in ds
         IN  (IF here THEN <<h>> ELSE <<>>) \o SelectPresent(Tail(s), nl, ds)

\* os.ReadDir(p): the entries of p that exist, sorted by name.
ReadDir(p) == SelectPresent(Children(p), nlink, dirs)

\* ------------------------------------------------- Cleaner.FindOrphans
\* orphan_unix.go:39  stat.Nlink == 1
IsOrphan_AnyLinked(n) == n >= 1

IsOrphan_UpToTwo(n) == n \in {1, 2}

IsOrphan(n) == n = 1

\* orphan_unix.go:29  os.Stat(path) fails when the entry is gone.
StatFails(p) == nlink[p] = 0

\* A symbolic link in the download directory points at a regular file
\* outside it that has one name.
TargetNlink == 1

\* orphan_unix.go:29,34,39  os.Stat follows a symbolic link: stat.Nlink is
\* the link count of the file the path resolves to.
StatNlink(p) == IF kind[p] = "symlink" THEN TargetNlink ELSE nlink[p]

\* orphan_unix.go:40-44
OrphanFile(p) == [Path |-> p, Size |-> size[p], Links |-> StatNlink(p)]

\* part_004:45  result := &CleanupResult{}
EmptyResult == [ScannedFiles |-> 0, OrphanFiles |-> <<>>, FreedBytes |-> 0, Errors |-> <<>>]

\* A Cleanup goroutine: pc is its position, todo the entries filepath.WalkDir
\* has listed and not yet visited, orphans the scan's findings, i the
\* index of the range loop, scanErr whether FindOrphans returned an error,
\* result the CleanupResult under construction,
\* retRes/retErr the returned pair (retRes = <<>> is a nil *CleanupResult).
IdleRun == [pc |-> "idle", todo |-> <<>>, orphans |-> <<>>,
            i |-> 1, scanErr |-> FALSE, result |-> EmptyResult, retRes |-> <<>>, retErr |-> "none"]

\* main.go:158-183, the handler of GET /api/stats: scan is the FindOrphans
\* call it makes, status the HTTP status it answered with (0: none yet),
\* count and raw the orphan_count and orphan_size_raw of a 200 response.
IdleStats == [scan |-> IdleRun, status |-> 0, count |-> 0, raw |-> 0]

\* part_004:108  return result, nil
Return(st) == [st EXCEPT !.pc = "done", !.todo = <<>>, !.retRes = <<st.result>>, !.retErr = "nil"]

\* part_004:48-50  the scan failed: return nil, err
ScanAbort_KeepsGoing(st) ==
    [st EXCEPT !.pc = "loop", !.todo = <<>>, !.i = 1, !.scanErr = TRUE,
               !.result.OrphanFiles = st.orphans]

ScanAbort(st) ==
    [st EXCEPT !.pc = "done", !.todo = <<>>, !.scanErr = TRUE, !.retRes = <<>>, !.retErr = "err"]

\* part_004:57  if c.dryRun { ...; continue }
SimulatesOnly_Never(dry) == FALSE

SimulatesOnly(dry) == dry

\* part_004:95  if !c.dryRun { removeEmptyDirs }
PrunesDirs_Always(dry) == TRUE

PrunesDirs(dry) == ~dry

\* part_004:54,93-99  the range loop is over: prune in live mode, then return.
AfterLoop(st) ==
    IF st.pc = "loop" /\ st.i > Len(st.orphans)
    THEN IF PrunesDirs(dryRun) THEN [st EXCEPT !.pc = "prune", !.todo = <<RootDir>>]
                               ELSE Return(st)
    ELSE st

\* part_004:52  result.OrphanFiles = orphans, once WalkDir has returned nil.
AfterScan(st) ==
    IF st.pc = "scan" /\ st.todo = <<>>
    THEN AfterLoop([st EXCEPT !.pc = "loop", !.i = 1, !.result.OrphanFiles = st.orphans])
    ELSE AfterLoop(st)

\* orphan_unix.go:21  WalkDir could not list the directory p (it is gone,
\* or the OS refuses) and hands the error to the callback.
ReadDirFails(p) == p \notin dirs \/ p \in denied

\* orphan_unix.go:30-32  if err != nil { return fmt.Errorf("stat %s: %w", ...) }
OnStatError_SkipsEntry(st) == [st EXCEPT !.todo = Tail(st.todo)]

OnStatError(st) == ScanAbort(st)

\* orphan_unix.go:20-52  one callback of the walk, on the entry p.
ScanVisit(st, p) ==
    IF p \in Dirs
    THEN IF ReadDirFails(p)
         THEN ScanAbort(st)                               \* fn returns err
         ELSE [st EXCEPT !.todo = ReadDir(p) \o Tail(st.todo)]
    ELSE IF StatFails(p)
         THEN OnStatError(st)
         ELSE [st EXCEPT !.todo = Tail(st.todo),
                         !.orphans = IF IsOrphan(StatNlink(p)) THEN Append(@, OrphanFile(p)) ELSE @]

\* ----------------------------------------------------- Cleaner.Cleanup
\* part_004:79  os.Remove(f.Path) fails: the entry is gone or the OS refuses.
RemoveFails(p) == nlink[p] = 0 \/ p \in locked

\* part_004:84-85  result.Errors = append(result.Errors, err); continue
OnRemoveError_CountsFreed(st, f) ==
    [st EXCEPT !.result.Errors = Append(@, f.Path), !.result.FreedBytes = @ + f.Size, !.i = @ + 1]

OnRemoveError_Unreported(st, f) == [st EXCEPT !.i = @ + 1]

OnRemoveError_AsFreed(st, f) == [st EXCEPT !.result.FreedBytes = @ + f.Size, !.i = @ + 1]

OnRemoveError(st, f) == [st EXCEPT !.result.Errors = Append(@, f.Path), !.i = @ + 1]

\* part_004:62,92  result.FreedBytes += f.Size
OnFreed_CountsOne(st, f) == [st EXCEPT !.result.FreedBytes = @ + 1, !.i = @ + 1]

OnFreed(st, f) == [st EXCEPT !.result.FreedBytes = @ + f.Size, !.i = @ + 1]

\* The Cleanup calls that have started and not returned.
\* main.go:203-212  main returns once srv.Shutdown has returned, and the
\* process ends with it: its goroutines run until then and no longer.
ProcessAlive == phase # "exited"

InFlight == {r \in Runs : run[r].pc \notin {"idle", "done"}}

\* main.go:90-92 and main.go:129-131: both call cleanerSvc.Cleanup() with no
\* guard; cron starts every tick in a goroutine of its own.  Call slots are
\* taken in order.
EnterCleanup(r) ==
    /\ ProcessAlive
    /\ run[r].pc = "idle"
    /\ r > 1 => run[r - 1].pc # "idle"
    /\ Cardinality(InFlight) < MaxLive
    /\ run' = [run EXCEPT ![r] = [IdleRun EXCEPT !.pc = "scan", !.todo = <<RootDir>>]]

StartCleanup(r) ==
    /\ EnterCleanup(r)
    /\ UNCHANGED <<nlink, size, dirs, locked, dryRun, qbit, torrents, rmlog, dirlog, qlog, ext>>
    /\ UNCHANGED <<wvars, tvars, evars>>

CronTick == \E r \in Runs : StartCleanup(r)

PostCleanup == \E r \in Runs : StartCleanup(r)

\* orphan_unix.go:17-55, one entry of the walk.
ScanStep(r) ==
    /\ ProcessAlive
    /\ run[r].pc = "scan"
    /\ run' = [run EXCEPT ![r] = AfterScan(ScanVisit(run[r], Head(run[r].todo)))]
    /\ UNCHANGED <<nlink, size, dirs, locked, dryRun, qbit, torrents, rmlog, dirlog, qlog, ext>>
    /\ UNCHANGED <<wvars, tvars, evars>>

\* ------------------------------------- qbittorrent.DeleteTorrentByPath
\* The bytes of a path, for strings.HasPrefix.
Bytes(p) ==
    CASE p = "/dl"           -> <<"/", "d", "l">>
      [] p = "/dl/a.mkv"     -> <<"/", "d", "l", "/", "a", ".", "m", "k", "v">>
      [] p = "/dl/d"         -> <<"/", "d", "l", "/", "d">>
      [] p = "/dl/d/e"       -> <<"/", "d", "l", "/", "d", "/", "e">>
      [] p = "/dl/d/e/c.mkv" -> <<"/", "d", "l", "/", "d", "/", "e", "/", "c", ".", "m", "k", "v">>

\* strings.HasPrefix(s, prefix), byte by byte.
HasPrefix(s, prefix) == Len(prefix) <= Len(s) /\ SubSeq(s, 1, Len(prefix)) = prefix

\* Two transfers saved in the download directory: one of the single file
\* a.mkv, one of the folder d (client.go:45-54: hash, content_path, save_path).
TorrentA == [Hash |-> "ta", SavePath |-> "/dl", ContentPath |-> "/dl/a.mkv"]

TorrentD == [Hash |-> "td", SavePath |-> "/dl", ContentPath |-> "/dl/d"]

\* client.go:80-95  the list GetTorrents("") returns, in either order.
TorrentLists == {<<TorrentA, TorrentD>>, <<TorrentD, TorrentA>>}

\* client.go:126  the test of the range loop on one transfer.
MatchesTorrent(t, path) ==
    \/ HasPrefix(Bytes(path), Bytes(t.SavePath))
    \/ HasPrefix(Bytes(path), Bytes(t.ContentPath))

\* client.go:125-129  the index of the first transfer of the list that
\* matches, 0 when none does.
RECURSIVE FirstMatch(_, _, _)
FirstMatch(ts, path, k) ==
    IF k > Len(ts) THEN 0
    ELSE IF MatchesTorrent(ts[k], path) THEN k
    ELSE FirstMatch(ts, path, k + 1)

\* The list without its k-th transfer.
Without(ts, k) == SubSeq(ts, 1, k - 1) \o SubSeq(ts, k + 1, Len(ts))

\* client.go:119-132  DeleteTorrentByPath(path, false): an error when the
\* client cannot be reached or no transfer matches; otherwise the first
\* match is deleted (Hash names it) and the call reports success.
DeleteTorrentByPath(path) ==
    LET k == FirstMatch(torrents, path, 1)
    IN  IF qbit # "up" \/ k = 0
        THEN [ok |-> FALSE, Hash |-> "", rest |-> torrents]
        ELSE [ok |-> TRUE, Hash |-> torrents[k].Hash, rest |-> Without(torrents, k)]

\* part_004:66  if c.qbit != nil
NotifiesAdapter(q) == q # "none"

\* part_004:67-77  the outcome of DeleteTorrentByPath is logged (Warn or
\* Info) and nothing else: the result is left as it is.
OnAdapterError_Recorded(st, f) == [st EXCEPT !.result.Errors = Append(@, f.Path)]

OnAdapterError(st, f) == st

\* part_004:55  result.ScannedFiles++, first statement of each iteration.
OnScanned_Uncounted(st) == st

OnScanned(st) == [st EXCEPT !.result.ScannedFiles = @ + 1]

\* part_004:79-92  os.Remove(f.Path) by the call r, whose state is st, and
\* the bookkeeping that follows it.
RemoveOrphan(r, st, f) ==
    IF RemoveFails(f.Path)
    THEN /\ run' = [run EXCEPT ![r] = AfterLoop(OnRemoveError(st, f))]
         /\ UNCHANGED <<nlink, rmlog>>
    ELSE /\ run' = [run EXCEPT ![r] = AfterLoop(OnFreed(st, f))]
         /\ nlink' = [nlink EXCEPT ![f.Path] = 0]
         /\ rmlog' = rmlog \cup {[run |-> r, path |-> f.Path]}

\* part_004:54-93, one iteration of the range loop up to and including its
\* first call that leaves the process: in a dry run the whole iteration;
\* with an adapter, DeleteTorrentByPath(f.Path, false), os.Remove being the
\* next step; with none, os.Remove.
LoopStep(r) ==
    /\ ProcessAlive
    /\ run[r].pc = "loop"
    /\ LET st == run[r]
           f  == st.orphans[st.i]
           s1 == OnScanned(st)
       IN  IF SimulatesOnly(dryRun)
           THEN /\ run' = [run EXCEPT ![r] = AfterLoop(OnFreed(s1, f))]
                /\ UNCHANGED <<nlink, rmlog, qlog, torrents>>
           ELSE IF NotifiesAdapter(qbit)
           THEN LET out == DeleteTorrentByPath(f.Path)
                IN  /\ qlog' = qlog \cup {[run |-> r, path |-> f.Path, deleteFiles |-> FALSE,
                                            ok |-> out.ok, Hash |-> out.Hash]}
                    /\ torrents' = out.rest
                    /\ run' = [run EXCEPT ![r] = [(IF out.ok THEN s1 ELSE OnAdapterError(s1, f))
                                                     EXCEPT !.pc = "remove"]]
                    /\ UNCHANGED <<nlink, rmlog>>
           ELSE /\ RemoveOrphan(r, s1, f)
                /\ UNCHANGED <<qlog, torrents>>
    /\ UNCHANGED <<size, dirs, locked, dryRun, qbit, dirlog, ext>>
    /\ UNCHANGED <<wvars, tvars, evars>>

\* part_004:79-92, the rest of an iteration that called the adapter.
RemoveStep(r) ==
    /\ ProcessAlive
    /\ run[r].pc = "remove"
    /\ RemoveOrphan(r, [run[r] EXCEPT !.pc = "loop"], run[r].orphans[run[r].i])
    /\ UNCHANGED <<size, dirs, locked, dryRun, qbit, torrents, dirlog, qlog, ext>>
    /\ UNCHANGED <<wvars, tvars, evars>>

\* part_004:128  the callback returns at once on an entry that is not a
\* directory (d.IsDir() comes from the listing, no filesystem access): only
\* the directories of a listing are kept.
RECURSIVE SelectDirs(_)
SelectDirs(s) ==
    IF s = <<>> THEN <<>>
    ELSE (IF Head(s) \in Dirs THEN <<Head(s)>> ELSE <<>>) \o SelectDirs(Tail(s))

\* part_004:128  path == c.downloadDir: the root is never a candidate.
IsPruneCandidate_RootToo(p) == TRUE

IsPruneCandidate(p) == p # RootDir

\* part_004:126-144, one callback of the walk of removeEmptyDirs.  Removing
\* an empty directory makes WalkDir's own ReadDir of it fail; that error is
\* handed to the callback, which returns it, and the walk ends.
PruneStep(r) ==
    /\ ProcessAlive
    /\ run[r].pc = "prune"
    /\ LET st == run[r]
           p  == Head(st.todo)
           go(t) == IF t = <<>> THEN Return(st) ELSE [st EXCEPT !.todo = t]
           descend == go(SelectDirs(ReadDir(p)) \o Tail(st.todo))
       IN  IF ~IsPruneCandidate(p)
           THEN run' = [run EXCEPT ![r] = descend] /\ UNCHANGED <<dirs, dirlog>>
           ELSE IF ReadDirFails(p)
           THEN run' = [run EXCEPT ![r] = Return(st)] /\ UNCHANGED <<dirs, dirlog>>
           ELSE IF ReadDir(p) # <<>>
           THEN run' = [run EXCEPT ![r] = descend] /\ UNCHANGED <<dirs, dirlog>>
           ELSE /\ run' = [run EXCEPT ![r] = Return(st)]
                /\ IF p \in locked
                   THEN UNCHANGED <<dirs, dirlog>>
                   ELSE /\ dirs' = dirs \ {p}
                        /\ dirlog' = dirlog \cup {[run |-> r, path |-> p]}
    /\ UNCHANGED <<nlink, size, locked, dryRun, qbit, torrents, rmlog, qlog, ext>>
    /\ UNCHANGED <<wvars, tvars, evars>>

\* ------------------------------------------------------ other processes
\* The media library hardlinks a download into movies/ or tv/.
ExtLink(f) ==
    /\ ext < MaxExt /\ nlink[f] >= 1 /\ nlink[f] < MaxLinks
    /\ nlink' = [nlink EXCEPT ![f] = @ + 1]
    /\ ext' = ext + 1
    /\ UNCHANGED <<size, dirs, locked, dryRun, qbit, torrents, run, rmlog, dirlog, qlog>>
    /\ UNCHANGED <<wvars, tvars, evars>>

\* The library copy is deleted: the download keeps the content alone.
ExtUnlink(f) ==
    /\ ext < MaxExt /\ nlink[f] > 1
    /\ nlink' = [nlink EXCEPT ![f] = @ - 1]
    /\ ext' = ext + 1
    /\ UNCHANGED <<size, dirs, locked, dryRun, qbit, torrents, run, rmlog, dirlog, qlog>>
    /\ UNCHANGED <<wvars, tvars, evars>>

\* Another actor removes the download itself.
ExtRemove(f) ==
    /\ ext < MaxExt /\ nlink[f] >= 1
    /\ nlink' = [nlink EXCEPT ![f] = 0]
    /\ ext' = ext + 1
    /\ UNCHANGED <<size, dirs, locked, dryRun, qbit, torrents, run, rmlog, dirlog, qlog>>
    /\ UNCHANGED <<wvars, tvars, evars>>

\* =====================================================================
\* internal/webhook: the Jellyfin notification endpoint and the
\* reconciliation it dispatches.  Strings are sequences of ASCII codes.
\* =====================================================================
MaxReqs == 2       \* notifications POSTed to /webhook/jellyfin per behaviour

\* handler.go:208-212  deleteEvents
EvLibraryDeleted == <<108, 105, 98, 114, 97, 114, 121, 46, 100, 101, 108, 101, 116, 101, 100>>   \* "library.deleted"
EvItemDeleted == <<105, 116, 101, 109, 46, 100, 101, 108, 101, 116, 101, 100>>   \* "item.deleted"
EvPlaybackStop == <<112, 108, 97, 121, 98, 97, 99, 107, 46, 115, 116, 111, 112>>   \* "playback.stop"

deleteEvents == <<EvLibraryDeleted, EvItemDeleted, EvPlaybackStop>>

\* handler.go:92,94  the item types dispatch knows
TyMovie == <<109, 111, 118, 105, 101>>   \* "movie"
TyEpisode == <<101, 112, 105, 115, 111, 100, 101>>   \* "episode"
TySeries == <<115, 101, 114, 105, 101, 115>>   \* "series"

\* unicode.ToLower on an ASCII letter.
LowerChar(c) == IF c \in 65..90 THEN c + 32 ELSE c

UpperChar(c) == IF c \in 97..122 THEN c - 32 ELSE c

\* handler.go:91  strings.ToLower
ToLower(s) == [k \in 1..Len(s) |-> LowerChar(s[k])]

ToUpper(s) == [k \in 1..Len(s) |-> UpperChar(s[k])]

\* handler.go:214  strings.EqualFold
EqualFold_Exact(s, u) == s = u

EqualFold(s, u) == Len(s) = Len(u) /\ \A k \in 1..Len(s) : LowerChar(s[k]) = LowerChar(u[k])

\* handler.go:207-219  isDeleteEvent
IsDeleteEvent(event) == \E k \in 1..Len(deleteEvents) : EqualFold(event, deleteEvents[k])

\* ------------------------------------------------------ wire format
\* A notification body is the object {Event,ItemType}: an opening brace, the
\* event name, a comma, the item type, a closing brace.  json.Decoder.Decode
\* fails on an empty body (io.EOF) and on a body that is not one object.
Encode(event, itemType) == <<123>> \o event \o <<44>> \o itemType \o <<125>>

Commas(b) == {k \in 1..Len(b) : b[k] = 44}

WellFormed(b) ==
    /\ Len(b) >= 3 /\ b[1] = 123 /\ b[Len(b)] = 125
    /\ Cardinality(Commas(b)) = 1
    /\ \A k \in 2..(Len(b) - 1) : b[k] \notin {123, 125}

\* handler.go:64-69  json.NewDecoder(c.Request.Body).Decode(&event)
Decode(b) ==
    IF WellFormed(b)
    THEN LET c == CHOOSE k \in Commas(b) : TRUE
         IN  [ok |-> TRUE, Event |-> SubSeq(b, 2, c - 1), ItemType |-> SubSeq(b, c + 1, Len(b) - 1)]
    ELSE [ok |-> FALSE, Event |-> <<>>, ItemType |-> <<>>]

\* ------------------------------------------------------ signature
\* handler.go:190-191  the keyed digest of the body.  A 16-bit keyed
\* polynomial with an odd multiplier stands for HMAC-SHA256: like it, it
\* depends on every byte of key and body, and a change of one byte of the
\* body always changes it.
RECURSIVE Absorb(_, _)
Absorb(h, bytes) ==
    IF bytes = <<>> THEN h ELSE Absorb((h * 31 + Head(bytes)) % 65536, Tail(bytes))

Hmac(key, body) ==
    LET h == Absorb(Absorb(Absorb(7, key), body), key)
    IN  <<h \div 256, h % 256>>

\* encoding/hex: the digits of hex.EncodeToString, "0123456789abcdef".
HexDigits == <<48, 49, 50, 51, 52, 53, 54, 55, 56, 57, 97, 98, 99, 100, 101, 102>>

\* handler.go:192  hex.EncodeToString
RECURSIVE HexEncode(_)
HexEncode(bytes) ==
    IF bytes = <<>> THEN <<>>
    ELSE <<HexDigits[(Head(bytes) \div 16) + 1], HexDigits[(Head(bytes) % 16) + 1]>>
         \o HexEncode(Tail(bytes))

\* handler.go:194  hmac.Equal([]byte(signature), []byte(expected))
HmacEqual_FoldsCase(a, b) == EqualFold(a, b)

HmacEqual(a, b) == a = b

\* handler.go:181  if signature == "" { return error }
HeaderMissing(signature) == signature = <<>>

\* handler.go:179-203  verifySignature: TRUE when it returns nil.
VerifySignature(key, signature, body) ==
    /\ ~HeaderMissing(signature)
    /\ HmacEqual(signature, HexEncode(Hmac(key, body)))

\* handler.go:199  c.Request.Body = http.NoBody: what is left for the JSON
\* decoder to read once verifySignature has consumed the body.
BodyAfterVerify(body) == <<>>

\* ------------------------------------------------------ notifications
SecretKey == <<107, 51>>     \* "k3", jellyfin.webhook_secret
OtherKey  == <<122, 122>>    \* "zz", a sender that does not know the secret

EventSamples ==
    { EvLibraryDeleted, EvItemDeleted, EvPlaybackStop,
      <<73, 116, 101, 109, 46, 100, 101, 108, 101, 116, 101, 100>>,                \* "Item.deleted"
      <<76, 73, 66, 82, 65, 82, 89, 46, 68, 69, 76, 69, 84, 69, 68>>,              \* "LIBRARY.DELETED"
      <<115, 117, 98, 116, 105, 116, 108, 101, 46, 100, 111, 119, 110, 108, 111, 97, 100, 101, 100>>,
                                                                                   \* "subtitle.downloaded"
      <<105, 116, 101, 109, 46, 100, 101, 108, 101, 116, 101>>,                    \* "item.delete"
      <<>> }

TypeSamples ==
    { <<77, 111, 118, 105, 101>>,               \* "Movie"
      <<69, 80, 73, 83, 79, 68, 69>>,           \* "EPISODE"
      <<83, 101, 114, 105, 101, 115>>,          \* "Series"
      <<65, 117, 100, 105, 111>> }              \* "Audio"

\* The bodies that are POSTed: every sample event as a Movie, every sample
\* type deleted, an empty body and a truncated one.
Bodies ==
    {Encode(e, <<77, 111, 118, 105, 101>>) : e \in EventSamples}
    \cup {Encode(EvItemDeleted, ty) : ty \in TypeSamples}
    \cup {<<>>, <<123>> \o EvItemDeleted}

\* The bodies that differ from b in exactly one byte.
OneByteOff(b) ==
    {c \in Bodies : /\ Len(c) = Len(b)
                    /\ Cardinality({k \in 1..Len(b) : c[k] # b[k]}) = 1}

\* The X-Jellyfin-Signature values sent with body b: none, the right one,
\* the right one in upper case, one made with another key, and the right
\* signature of a body that differs from b in one byte.
Headers(b) ==
    { <<>>, HexEncode(Hmac(SecretKey, b)), ToUpper(HexEncode(Hmac(SecretKey, b))),
      HexEncode(Hmac(OtherKey, b)) }
    \cup {HexEncode(Hmac(SecretKey, c)) : c \in OneByteOff(b)}

\* The notifications that are POSTed to /webhook/jellyfin.
Requests == UNION {{[header |-> h, body |-> b] : h \in Headers(b)} : b \in Bodies}

\* ------------------------------------------------------ catalogs
Movies    == {1, 2}      \* ids of the movies Radarr tracks
SeriesIds == {1, 2}      \* ids of the series Sonarr tracks

\* A reconciliation goroutine (go h.dispatch(event)): pc is its position,
\* itemType the event's ItemType, list the items the query returned, k the
\* index of the range loop, calls the adapter calls it has made, held the
\* monitored flag of the item an UnmonitorMovie / UnmonitorSeries call has
\* fetched and not yet written back.
NoCoord == [pc |-> "none", itemType |-> <<>>, list |-> <<>>, k |-> 1, calls |-> <<>>,
            held |-> FALSE]

\* Nothing handled yet.
NoExchange == [header |-> <<>>, body |-> <<>>, status |-> 0, msg |-> "", parsed |-> <<>>, inv |-> 0]

\* handler.go:90-102  the switch of dispatch.
Route_ByExactName(itemType) ==
    IF itemType = TyMovie THEN "radarr"
    ELSE IF itemType \in {TyEpisode, TySeries} THEN "sonarr"
    ELSE "drop"

Route_UnknownAsMovie(itemType) ==
    IF ToLower(itemType) \in {TyEpisode, TySeries} THEN "sonarr" ELSE "radarr"

Route(itemType) ==
    IF ToLower(itemType) = TyMovie THEN "radarr"
    ELSE IF ToLower(itemType) \in {TyEpisode, TySeries} THEN "sonarr"
    ELSE "drop"

\* handler.go:54-86  handleJellyfin, on a notification with the given
\* signature header and body.  The exchange is recorded in last: the status
\* and message of the response, what the JSON decoder was given to read
\* (parsed = <<>> when it was not called) and the goroutine started (inv).
HandleJellyfin(header, body) ==
    /\ nreq < MaxReqs
    /\ nreq' = nreq + 1
    /\ LET id       == nreq + 1
           rejected == secret # <<>> /\ ~VerifySignature(secret, header, body)
           input    == IF secret # <<>> THEN BodyAfterVerify(body) ELSE body
           ev       == Decode(input)
           ex       == [NoExchange EXCEPT !.header = header, !.body = body]
       IN  IF rejected
           THEN /\ last' = [ex EXCEPT !.status = 401, !.msg = "invalid signature"]
                /\ UNCHANGED coord
           ELSE IF ~ev.ok
           THEN /\ last' = [ex EXCEPT !.status = 400, !.msg = "invalid payload", !.parsed = <<input>>]
                /\ UNCHANGED coord
           ELSE IF ~IsDeleteEvent(ev.Event)
           THEN /\ last' = [ex EXCEPT !.status = 200, !.msg = "ignored", !.parsed = <<input>>]
                /\ UNCHANGED coord
           ELSE /\ last' = [ex EXCEPT !.status = 200, !.msg = "processing", !.parsed = <<input>>,
                                      !.inv = id]
                /\ coord' = [coord EXCEPT ![id] = [NoCoord EXCEPT !.pc = "start", !.itemType = ev.ItemType]]
    /\ UNCHANGED <<secret, hasFile, episodeFiles, monitoredMovies, monitoredSeries>>
    /\ UNCHANGED <<cvars, tvars, evars>>

PostJellyfin == \E q \in Requests : HandleJellyfin(q.header, q.body)

\* radarr GetMissingMovies (part_001:91-104) / sonarr GetEmptySeries
\* (part_000:102-115), in the order of the catalog's listing.
RECURSIVE Ascending(_)
Ascending(S) ==
    IF S = {} THEN <<>>
    ELSE LET m == CHOOSE x \in S : \A y \in S : x <= y
         IN  <<m>> \o Ascending(S \ {m})

\* part_000:108  s.Statistics.EpisodeFileCount == 0
IsEmptySeries_UnderTwo(n) == n < 2

IsEmptySeries(n) == n = 0

GetMissingMovies == Ascending({m \in Movies : ~hasFile[m]})

GetEmptySeries == Ascending({s \in SeriesIds : IsEmptySeries(episodeFiles[s])})

Call(svc, op, id, ok) == [svc |-> svc, op |-> op, id |-> id, ok |-> ok]

\* handler.go:109-115, 146-152  if err := RescanAll(); err != nil { ...; return }
AfterRescan_GoesOn(ok) == "query"

AfterRescan(ok) == IF ok THEN "query" ELSE "done"

\* handler.go:125-137, 162-174  the range loop: `continue` on a failure, and
\* the goroutine ends after the last item.
AfterUnmonitor_StopsOnError(ok, more) == IF ok /\ more THEN "unmonitor" ELSE "done"

AfterUnmonitor(ok, more) == IF more THEN "unmonitor" ELSE "done"

\* handler.go:90-116, 140-153  dispatch, then RescanAll on the adapter the
\* item type selects; a failed rescan ends the goroutine.
CoordRescan(i) ==
    /\ coord[i].pc = "start"
    /\ LET svc == Route(coord[i].itemType)
       IN  IF svc = "drop"
           THEN coord' = [coord EXCEPT ![i].pc = "done"]
           ELSE \E ok \in BOOLEAN :
                    coord' = [coord EXCEPT ![i].pc = AfterRescan(ok),
                                           ![i].calls = Append(@, Call(svc, "rescan", 0, ok))]
    /\ UNCHANGED <<secret, nreq, last, hasFile, episodeFiles, monitoredMovies, monitoredSeries>>
    /\ UNCHANGED <<cvars, tvars, evars>>

\* handler.go:118-123, 155-160  the query; a failed query ends the goroutine.
CoordQuery(i) ==
    /\ coord[i].pc = "query"
    /\ LET svc  == Route(coord[i].itemType)
           list == IF svc = "radarr" THEN GetMissingMovies ELSE GetEmptySeries
       IN  \E ok \in BOOLEAN :
               coord' = [coord EXCEPT ![i].pc = IF ok /\ list # <<>> THEN "unmonitor" ELSE "done",
                                      ![i].list = IF ok THEN list ELSE <<>>,
                                      ![i].calls = Append(@, Call(svc, "query", 0, ok))]
    /\ UNCHANGED <<secret, nreq, last, hasFile, episodeFiles, monitoredMovies, monitoredSeries>>
    /\ UNCHANGED <<cvars, tvars, evars>>

\* handler.go:126, 163  the adapter method the loop calls on each item:
\* UnmonitorMovie / UnmonitorSeries, and not DeleteMovie / DeleteSeries
\* (part_001:119, part_000:130).
UnmonitorOp_Deletes(svc) == "delete"

UnmonitorOp(svc) == "unmonitor"

\* handler.go:125-137, 162-174  one iteration of the unmonitor loop
\* (part_001:107-116, part_000:118-127); a failure is logged and the loop
\* goes on.
CoordUnmonitor(i) ==
    /\ coord[i].pc = "unmonitor"
    /\ LET svc == Route(coord[i].itemType)
           id  == coord[i].list[coord[i].k]
       IN  \E ok \in BOOLEAN :
               /\ coord' = [coord EXCEPT ![i].pc = AfterUnmonitor(ok, coord[i].k < Len(coord[i].list)),
                                         ![i].k = @ + 1,
                                         ![i].calls = Append(@, Call(svc, UnmonitorOp(svc), id, ok))]
               /\ monitoredMovies' = IF ok /\ svc = "radarr" THEN monitoredMovies \ {id} ELSE monitoredMovies
               /\ monitoredSeries' = IF ok /\ svc = "sonarr" THEN monitoredSeries \ {id} ELSE monitoredSeries
    /\ UNCHANGED <<secret, nreq, last, hasFile, episodeFiles>>
    /\ UNCHANGED <<cvars, tvars, evars>>

\* part_001:113, part_000:124  movie.Monitored = false before the PUT.
Unmonitored_Toggles(m) == ~m

Unmonitored(m) == FALSE

\* part_001:107-111, part_000:118-122  the first half of UnmonitorMovie /
\* UnmonitorSeries: GET the item; a failure is the call's error.
CoordGet(i) ==
    /\ coord[i].pc = "unmonitor"
    /\ LET svc == Route(coord[i].itemType)
           id  == coord[i].list[coord[i].k]
           now == IF svc = "radarr" THEN id \in monitoredMovies ELSE id \in monitoredSeries
       IN  \E ok \in BOOLEAN :
               coord' = IF ok
                        THEN [coord EXCEPT ![i].pc = "put", ![i].held = now]
                        ELSE [coord EXCEPT ![i].pc = AfterUnmonitor(FALSE, coord[i].k < Len(coord[i].list)),
                                           ![i].k = @ + 1,
                                           ![i].calls = Append(@, Call(svc, UnmonitorOp(svc), id, FALSE))]
    /\ UNCHANGED <<secret, nreq, last, hasFile, episodeFiles, monitoredMovies, monitoredSeries>>
    /\ UNCHANGED <<cvars, tvars, evars>>

\* part_001:113-115, part_000:124-126  the second half: PUT the item that
\* was fetched, with its monitored flag cleared.
CoordPut(i) ==
    /\ coord[i].pc = "put"
    /\ LET svc == Route(coord[i].itemType)
           id  == coord[i].list[coord[i].k]
           put(S) == IF Unmonitored(coord[i].held) THEN S \cup {id} ELSE S \ {id}
       IN  \E ok \in BOOLEAN :
               /\ coord' = [coord EXCEPT ![i].pc = AfterUnmonitor(ok, coord[i].k < Len(coord[i].list)),
                                         ![i].k = @ + 1,
                                         ![i].calls = Append(@, Call(svc, UnmonitorOp(svc), id, ok))]
               /\ monitoredMovies' = IF ok /\ svc = "radarr" THEN put(monitoredMovies) ELSE monitoredMovies
               /\ monitoredSeries' = IF ok /\ svc = "sonarr" THEN put(monitoredSeries) ELSE monitoredSeries
    /\ UNCHANGED <<secret, nreq, last, hasFile, episodeFiles>>
    /\ UNCHANGED <<cvars, tvars, evars>>

\* =====================================================================
\* The three requests that start work in a goroutine, at the granularity
\* of their last two statements: `go ...` and then the c.JSON that writes
\* the response (handler.go:83-85, main.go:130-141, main.go:146-155).
\* =====================================================================
MaxHttp == 2       \* such requests per behaviour

\* An exchange: the route, the position of the handler ("go": the goroutine
\* is started and c.JSON is next), the goroutine started and the response.
NoRequest == [route |-> "none", pc |-> "none", job |-> 0, status |-> 0, msg |-> ""]

\* The goroutine of POST /api/rescan and the adapter calls it has made.
NoRescan == [pc |-> "none", calls |-> <<>>]

TransportAtRest ==
    /\ http = [h \in 1..MaxHttp |-> NoRequest]
    /\ rescan = [h \in 1..MaxHttp |-> NoRescan]

\* The goroutine an exchange started has returned.
WorkDone(x) ==
    CASE x.route = "/webhook/jellyfin" -> coord[x.job].pc = "done"
      [] x.route = "/api/cleanup"      -> run[x.job].pc = "done"
      [] x.route = "/api/rescan"       -> rescan[x.job].pc = "done"
      [] OTHER                         -> FALSE

\* handler.go:85, main.go:141, main.go:155  what c.JSON is given.
ResponseOf(route) ==
    CASE route = "/webhook/jellyfin" -> [status |-> 200, msg |-> "processing"]
      [] route = "/api/cleanup"      -> [status |-> 202, msg |-> "cleanup started"]
      [] route = "/api/rescan"       -> [status |-> 202, msg |-> "rescan started"]

\* Between `go` and c.JSON the handler waits for nothing: no channel, no
\* WaitGroup, no join.
MayRespond_AwaitsWork(done) == done

MayRespond(done) == TRUE

\* The item types of the notifications that reach go h.dispatch: one for
\* each branch of its switch.
DispatchedKinds ==
    { <<77, 111, 118, 105, 101>>,               \* "Movie"
      <<83, 101, 114, 105, 101, 115>>,          \* "Series"
      <<65, 117, 100, 105, 111>> }              \* "Audio"

\* Request slots are taken in order.
FreeSlot(h) == http[h].pc = "none" /\ (h > 1 => http[h - 1].pc # "none")

\* handler.go:83  go h.dispatch(event), on a notification that has passed
\* the checks of handler.go:56-80.
JellyfinDispatch(h, itemType) ==
    /\ FreeSlot(h) /\ nreq < MaxReqs
    /\ nreq' = nreq + 1
    /\ coord' = [coord EXCEPT ![nreq + 1] = [NoCoord EXCEPT !.pc = "start", !.itemType = itemType]]
    /\ http' = [http EXCEPT ![h] = [NoRequest EXCEPT !.route = "/webhook/jellyfin", !.pc = "go",
                                                     !.job = nreq + 1]]
    /\ UNCHANGED <<secret, last, hasFile, episodeFiles, monitoredMovies, monitoredSeries, rescan>>
    /\ UNCHANGED <<cvars, evars>>

\* main.go:130-140  go func() { cleanerSvc.Cleanup() ... }()
CleanupDispatch(h, r) ==
    /\ FreeSlot(h)
    /\ EnterCleanup(r)
    /\ http' = [http EXCEPT ![h] = [NoRequest EXCEPT !.route = "/api/cleanup", !.pc = "go", !.job = r]]
    /\ UNCHANGED <<nlink, size, dirs, locked, dryRun, qbit, torrents, rmlog, dirlog, qlog, ext, rescan>>
    /\ UNCHANGED <<wvars, evars>>

\* main.go:146-154  go func() { radarr.RescanAll(); sonarr.RescanAll() }()
RescanDispatch(h) ==
    /\ FreeSlot(h)
    /\ rescan' = [rescan EXCEPT ![h] = [NoRescan EXCEPT !.pc = "radarr"]]
    /\ http' = [http EXCEPT ![h] = [NoRequest EXCEPT !.route = "/api/rescan", !.pc = "go", !.job = h]]
    /\ UNCHANGED <<cvars, wvars, evars>>

\* main.go:147-149  radarrClient.RescanAll(); a failure is logged only.
RescanRadarr(j) ==
    /\ rescan[j].pc = "radarr"
    /\ \E ok \in BOOLEAN :
           rescan' = [rescan EXCEPT ![j].pc = "sonarr",
                                    ![j].calls = Append(@, Call("radarr", "rescan", 0, ok))]
    /\ UNCHANGED <<cvars, wvars, evars, http>>

\* main.go:150-153  sonarrClient.RescanAll(), then the goroutine ends.
RescanSonarr(j) ==
    /\ rescan[j].pc = "sonarr"
    /\ \E ok \in BOOLEAN :
           rescan' = [rescan EXCEPT ![j].pc = "done",
                                    ![j].calls = Append(@, Call("sonarr", "rescan", 0, ok))]
    /\ UNCHANGED <<cvars, wvars, evars, http>>

\* handler.go:85, main.go:141, main.go:155  c.JSON(...)
Respond(h) ==
    /\ http[h].pc = "go"
    /\ MayRespond(WorkDone(http[h]))
    /\ http' = [http EXCEPT ![h].pc = "responded",
                            ![h].status = ResponseOf(http[h].route).status,
                            ![h].msg = ResponseOf(http[h].route).msg]
    /\ UNCHANGED <<cvars, wvars, evars, rescan>>

\* ------------------------------------------ CleanupResult.FreedBytesHuman
\* An int64 byte count is written in base 1024, most significant digit
\* first and without leading zeros: <<1, 512>> is 1536.
Unit == 1024          \* part_004:112  const unit = 1024

UnitLetters == <<"K", "M", "G", "T", "P", "E">>     \* part_004:123  "KMGTPE"

Int64Digits == 7      \* 2^63 - 1 = <<7, 1023, 1023, 1023, 1023, 1023, 1023>>

Mantissa == 53        \* bits of a float64 significand

Front(s) == SubSeq(s, 1, Len(s) - 1)

\* part_004:118-121  for n := b / unit; n >= unit; n /= unit { div *= unit; exp++ }
RECURSIVE ScaleLoop(_, _)
ScaleLoop(n, exp) == IF Len(n) > 1 THEN ScaleLoop(Front(n), exp + 1) ELSE exp

BitLen(d) == CHOOSE k \in 0..10 : d < 2^k /\ (k > 0 => d >= 2^(k - 1))

\* A carry out of a digit that rounding took to 1024; the top digit keeps it.
RECURSIVE Carry(_)
Carry(s) ==
    IF Len(s) > 1 /\ s[Len(s)] = Unit
    THEN Carry([Front(s) EXCEPT ![Len(s) - 1] = @ + 1]) \o <<0>>
    ELSE s

\* part_004:122  float64(b): the nearest value with a 53-bit significand,
\* ties to even.  An int64 has at most 63 bits, so the bits lost are in
\* the last digit.
ToFloat64(b) ==
    LET bits == 10 * (Len(b) - 1) + BitLen(b[1])
    IN  IF bits <= Mantissa THEN b
        ELSE LET ulp  == 2^(bits - Mantissa)
                 low  == b[Len(b)]
                 q    == low \div ulp
                 r    == low % ulp
                 odd  == IF ulp = Unit THEN b[Len(b) - 1] % 2 = 1 ELSE q % 2 = 1
                 up   == r > ulp \div 2 \/ (r = ulp \div 2 /\ odd)
             IN  Carry(Front(b) \o <<(q + IF up THEN 1 ELSE 0) * ulp>>)

RECURSIVE Whole(_, _)
Whole(s, acc) == IF s = <<>> THEN acc ELSE Whole(Tail(s), acc * Unit + Head(s))

\* floor(20 * 0.f) for the base-1024 fraction 0.f: the twentieths in it.
RECURSIVE Twentieths(_)
Twentieths(f) == IF f = <<>> THEN 0 ELSE (20 * Head(f) + Twentieths(Tail(f))) \div Unit

\* 20 * 0.f is a whole number.
RECURSIVE ExactTwentieths(_)
ExactTwentieths(f) ==
    f = <<>> \/ ((20 * Head(f) + Twentieths(Tail(f))) % Unit = 0 /\ ExactTwentieths(Tail(f)))

\* part_004:122  fmt.Sprintf("%.1f", x): the decimal value of x rounded to
\* one decimal, a tie to the even digit; x is whole + 0.f in base 1024.
OneDecimal(whole, f) ==
    LET h  == Twentieths(f)
        lo == h \div 2
        t  == IF h % 2 = 0 THEN lo
              ELSE IF ExactTwentieths(f) /\ lo % 2 = 0 THEN lo
              ELSE lo + 1
    IN  IF t = 10 THEN [whole |-> whole + 1, tenth |-> <<0>>]
                  ELSE [whole |-> whole, tenth |-> <<t>>]

\* part_004:111-124  the text is the number, its decimal (none for "%d B")
\* and the unit letter (none for bytes), followed by "B".
FreedBytesHuman(b) ==
    IF Len(b) = 1
    THEN [whole |-> b[1], tenth |-> <<>>, unit |-> "", exp |-> 0]
    ELSE LET exp == ScaleLoop(Front(b), 0)
             x   == ToFloat64(b)
             k   == Len(b) - (exp + 1)
             d   == OneDecimal(Whole(SubSeq(x, 1, k), 0), SubSeq(x, k + 1, Len(x)))
         IN  [whole |-> d.whole, tenth |-> d.tenth, unit |-> UnitLetters[exp + 1], exp |-> exp]

\* No FreedBytesHuman call has been made.
NoRendering == [b |-> <<0>>, text |-> <<>>]

\* The byte counts rendered: every length an int64 allows, with first
\* digits, second digits (they decide the decimal) and lower digits that
\* sit on each side of a rounding step.
TopDigits == {1, 7, 500, 1023}

SecondDigits == {0, 51, 52, 256, 512, 768, 972, 973, 1023}

LowDigits == {0, 1, 1023}

RECURSIVE LowTails(_)
LowTails(n) == IF n = 0 THEN {<<>>} ELSE {<<d>> \o t : d \in LowDigits, t \in LowTails(n - 1)}

ByteCounts ==
    {<<d>> : d \in TopDigits \cup {0}}
    \cup UNION {{<<a, c>> \o t : a \in {x \in TopDigits : n = Int64Digits => x <= 7},
                                 c \in SecondDigits, t \in LowTails(n - 2)} : n \in 2..Int64Digits}

\* part_004:111  a caller formats a result's FreedBytes.
Render ==
    /\ human.text = <<>>
    /\ human' = [human EXCEPT !.text = <<FreedBytesHuman(human.b)>>]
    /\ UNCHANGED <<cvars, wvars, tvars, denied, kind, stats, phase>>

\* ------------------------------------------------------ GET /api/stats
\* main.go:166-169  for _, o := range orphans { totalSize += o.Size }
RECURSIVE TotalSize(_)
TotalSize(fs) == IF fs = <<>> THEN 0 ELSE Head(fs).Size + TotalSize(Tail(fs))

\* main.go:170-176  ctx.JSON(200, ...) with orphan_count and orphan_size_raw
StatsOK(st) ==
    [scan |-> [st EXCEPT !.pc = "done"], status |-> 200,
     count |-> Len(st.orphans), raw |-> TotalSize(st.orphans)]

\* main.go:161-164  if err != nil { ctx.JSON(500, gin.H{"error": ...}); return }
StatsFailed(st) == [scan |-> st, status |-> 500, count |-> 0, raw |-> 0]

\* main.go:158-160  a GET /api/stats request arrives and its handler calls
\* cleanerSvc.FindOrphans(); the handler takes no lock and tests no flag.
StatsStart ==
    /\ ProcessAlive
    /\ stats.scan.pc \in {"idle", "done"}
    /\ stats' = [IdleStats EXCEPT !.scan.pc = "scan", !.scan.todo = <<RootDir>>]
    /\ UNCHANGED <<cvars, wvars, tvars, denied, kind, phase, human>>

\* main.go:160-176 with orphan_unix.go:17-55: one entry of the handler's
\* walk and, when the walk ends, the response.
StatsStep ==
    /\ ProcessAlive
    /\ stats.scan.pc = "scan"
    /\ LET st == ScanVisit(stats.scan, Head(stats.scan.todo))
       IN  stats' = IF st.scanErr THEN StatsFailed(st)
                    ELSE IF st.todo = <<>> THEN StatsOK(st)
                    ELSE [stats EXCEPT !.scan = st]
    /\ UNCHANGED <<cvars, wvars, tvars, denied, kind, phase, human>>

\* ------------------------------------------------------------- shutdown
\* main.go:196-199  signal.Notify(quit, SIGINT, SIGTERM); <-quit
Signal ==
    /\ phase = "running"
    /\ phase' = "signalled"
    /\ UNCHANGED <<cvars, wvars, tvars, denied, kind, stats, human>>

\* main.go:203-212  srv.Shutdown(ctx) returns (it waits for HTTP exchanges,
\* at most 10 s, and for no Cleanup goroutine) and main returns.
Exit ==
    /\ phase = "signalled"
    /\ phase' = "exited"
    /\ UNCHANGED <<cvars, wvars, tvars, denied, kind, stats, human>>

\* Every entry can be read and is a regular file, no GET /api/stats is being
\* served, and no signal has been delivered.
EnvAtRest ==
    /\ denied = {}
    /\ kind = [f \in Files |-> "regular"]
    /\ stats = IdleStats
    /\ phase = "running"
    /\ human = NoRendering

\* The cleaner is at rest while the webhook is exercised.
CleanerAtRest ==
    /\ nlink = [f \in Files |-> 1]
    /\ size = SizeOf
    /\ dirs = Dirs
    /\ locked = {}
    /\ dryRun = TRUE
    /\ qbit = "none"
    /\ torrents = <<>>
    /\ run = [r \in Runs |-> IdleRun]
    /\ rmlog = {} /\ dirlog = {} /\ qlog = {}
    /\ ext = 0

\* No notification has arrived.
WebhookAtRest ==
    /\ nreq = 0
    /\ last = NoExchange
    /\ coord = [i \in 1..MaxReqs |-> NoCoord]
    /\ monitoredMovies = Movies
    /\ monitoredSeries = SeriesIds

InitWebhook ==
    /\ CleanerAtRest
    /\ WebhookAtRest
    /\ TransportAtRest
    /\ EnvAtRest
    /\ secret \in {<<>>, SecretKey}
    /\ hasFile \in {[m \in Movies |-> m \notin gone] : gone \in {{}, {2}, {1, 2}}}
    /\ episodeFiles \in {[x \in SeriesIds |-> IF x \in empty THEN 0 ELSE 1] : empty \in {{}, {1}, {1, 2}}}

NextWebhook ==
    \/ PostJellyfin
    \/ \E i \in 1..MaxReqs : CoordRescan(i)
    \/ \E i \in 1..MaxReqs : CoordQuery(i)
    \/ \E i \in 1..MaxReqs : CoordUnmonitor(i)

SpecWebhook == InitWebhook /\ [][NextWebhook]_vars

\* Reconciliation goroutines started by separate notifications, running
\* side by side at the granularity of their HTTP calls, over catalogs that
\* list two movies without a file and one series without an episode file.
InitCoordinators ==
    /\ CleanerAtRest
    /\ WebhookAtRest
    /\ TransportAtRest
    /\ EnvAtRest
    /\ secret = <<>>
    /\ hasFile = [m \in Movies |-> FALSE]
    /\ episodeFiles = [x \in SeriesIds |-> IF x = 1 THEN 0 ELSE 1]

NextCoordinators ==
    \/ PostJellyfin
    \/ \E i \in 1..MaxReqs : CoordRescan(i)
    \/ \E i \in 1..MaxReqs : CoordQuery(i)
    \/ \E i \in 1..MaxReqs : CoordGet(i)
    \/ \E i \in 1..MaxReqs : CoordPut(i)

SpecCoordinators == InitCoordinators /\ [][NextCoordinators]_vars

\* The requests that start work, on a live cleaner whose download directory
\* holds one orphan and catalogs with something to unmonitor.  The handler's own
\* goroutine always gets to run its next statement; nothing is assumed of
\* the goroutines it started, which may stall in a filesystem or HTTP call.
InitHttp ==
    /\ nlink = [f \in Files |-> IF f = "/dl/a.mkv" THEN 1 ELSE 0]
    /\ size = SizeOf
    /\ dirs = {RootDir}
    /\ locked = {}
    /\ dryRun = FALSE
    /\ qbit = "none"
    /\ torrents = <<>>
    /\ run = [r \in Runs |-> IdleRun]
    /\ rmlog = {} /\ dirlog = {} /\ qlog = {}
    /\ ext = 0
    /\ WebhookAtRest
    /\ TransportAtRest
    /\ EnvAtRest
    /\ secret = <<>>
    /\ hasFile = [m \in Movies |-> m # 2]
    /\ episodeFiles = [x \in SeriesIds |-> IF x = 1 THEN 0 ELSE 1]

NextHttp ==
    \/ \E h \in 1..MaxHttp : \E ty \in DispatchedKinds : JellyfinDispatch(h, ty)
    \/ \E h \in 1..MaxHttp : \E r \in Runs : CleanupDispatch(h, r)
    \/ \E h \in 1..MaxHttp : RescanDispatch(h)
    \/ \E h \in 1..MaxHttp : Respond(h)
    \/ \E i \in 1..MaxReqs : CoordRescan(i)
    \/ \E i \in 1..MaxReqs : CoordQuery(i)
    \/ \E i \in 1..MaxReqs : CoordUnmonitor(i)
    \/ \E r \in Runs : ScanStep(r)
    \/ \E r \in Runs : LoopStep(r)
    \/ \E r \in Runs : PruneStep(r)
    \/ \E j \in 1..MaxHttp : RescanRadarr(j)
    \/ \E j \in 1..MaxHttp : RescanSonarr(j)

SpecHttp == InitHttp /\ [][NextHttp]_vars /\ \A h \in 1..MaxHttp : WF_vars(Respond(h))

\* ------------------------------------------------------- specification
Init ==
    /\ nlink \in [Files -> 0..MaxLinks]
    /\ size = SizeOf
    /\ dirs = Dirs
    /\ locked \in LockChoices
    /\ dryRun \in BOOLEAN
    /\ qbit \in {"none", "up", "down"}
    /\ dryRun => qbit # "down"          \* a dry run never reaches the adapter
    /\ torrents = <<>>                  \* the download client holds no transfer
    /\ run = [r \in Runs |-> IdleRun]
    /\ rmlog = {} /\ dirlog = {} /\ qlog = {}
    /\ ext = 0
    /\ WebhookAtRest
    /\ TransportAtRest
    /\ EnvAtRest
    /\ secret = SecretKey
    /\ hasFile = [m \in Movies |-> TRUE]
    /\ episodeFiles = [x \in SeriesIds |-> 1]

Next ==
    \/ CronTick
    \/ PostCleanup
    \/ \E r \in Runs : ScanStep(r)
    \/ \E r \in Runs : LoopStep(r)
    \/ \E r \in Runs : RemoveStep(r)
    \/ \E r \in Runs : PruneStep(r)
    \/ \E f \in Files : ExtLink(f)
    \/ \E f \in Files : ExtUnlink(f)
    \/ \E f \in Files : ExtRemove(f)

Spec == Init /\ [][Next]_vars

\* FreedBytesHuman applied to one byte count.
InitHuman ==
    /\ CleanerAtRest
    /\ WebhookAtRest
    /\ TransportAtRest
    /\ denied = {}
    /\ kind = [f \in Files |-> "regular"]
    /\ stats = IdleStats
    /\ phase = "running"
    /\ human \in {[b |-> x, text |-> <<>>] : x \in ByteCounts}
    /\ secret = SecretKey
    /\ hasFile = [m \in Movies |-> TRUE]
    /\ episodeFiles = [x \in SeriesIds |-> 1]

NextHuman == Render

SpecHuman == InitHuman /\ [][NextHuman]_vars

\* GET /api/stats served while the scheduler starts Cleanup calls on a live
\* cleaner and another process removes downloads; one subdirectory may be
\* unreadable.
UnreadableChoices == {{}, {"/dl/d/e"}}

InitStats ==
    /\ nlink \in [Files -> 1..MaxLinks]
    /\ size = SizeOf
    /\ dirs = Dirs
    /\ locked = {}
    /\ dryRun = FALSE
    /\ qbit = "none"
    /\ torrents = <<>>
    /\ run = [r \in Runs |-> IdleRun]
    /\ rmlog = {} /\ dirlog = {} /\ qlog = {}
    /\ ext = 0
    /\ WebhookAtRest
    /\ TransportAtRest
    /\ denied \in UnreadableChoices
    /\ kind = [f \in Files |-> "regular"]
    /\ stats = IdleStats
    /\ phase = "running"
    /\ human = NoRendering
    /\ secret = SecretKey
    /\ hasFile = [m \in Movies |-> TRUE]
    /\ episodeFiles = [x \in SeriesIds |-> 1]

NextStats ==
    \/ StatsStart
    \/ StatsStep
    \/ CronTick
    \/ \E r \in Runs : ScanStep(r)
    \/ \E r \in Runs : LoopStep(r)
    \/ \E r \in Runs : PruneStep(r)
    \/ \E f \in Files : ExtRemove(f)

SpecStats == InitStats /\ [][NextStats]_vars

\* A live cleaner whose scheduler starts Cleanup calls, in a process that is
\* sent SIGINT or SIGTERM at any moment.
InitShutdown ==
    /\ nlink \in [Files -> 1..MaxLinks]
    /\ size = SizeOf
    /\ dirs = Dirs
    /\ locked = {}
    /\ dryRun = FALSE
    /\ qbit = "none"
    /\ torrents = <<>>
    /\ run = [r \in Runs |-> IdleRun]
    /\ rmlog = {} /\ dirlog = {} /\ qlog = {}
    /\ ext = 0
    /\ WebhookAtRest
    /\ TransportAtRest
    /\ EnvAtRest
    /\ secret = SecretKey
    /\ hasFile = [m \in Movies |-> TRUE]
    /\ episodeFiles = [x \in SeriesIds |-> 1]

NextShutdown ==
    \/ Signal
    \/ Exit
    \/ CronTick
    \/ \E r \in Runs : ScanStep(r)
    \/ \E r \in Runs : LoopStep(r)
    \/ \E r \in Runs : PruneStep(r)

SpecShutdown == InitShutdown /\ [][NextShutdown]_vars

\* Cleanup called by one caller, one call after the other has returned, on
\* a live cleaner, with no other process touching the download directory.
CleanupCall(r) == InFlight = {} /\ StartCleanup(r)

InitSequential ==
    /\ nlink \in [Files -> 0..MaxLinks]
    /\ size = SizeOf
    /\ dirs \in {Dirs, {RootDir}}
    /\ \A d \in Dirs \ dirs : ReadDir(d) = <<>>      \* no entry without its directory
    /\ locked \in LockChoices \cup {{"/dl/d/e"}}
    /\ dryRun = FALSE
    /\ qbit \in {"none", "up", "down"}
    /\ torrents \in TorrentLists
    /\ run = [r \in Runs |-> IdleRun]
    /\ rmlog = {} /\ dirlog = {} /\ qlog = {}
    /\ ext = 0
    /\ WebhookAtRest
    /\ TransportAtRest
    /\ denied = {}
    /\ kind \in [Files -> {"regular", "symlink"}]
    /\ \A f \in Files : kind[f] = "symlink" => nlink[f] = 1
    /\ stats = IdleStats
    /\ phase = "running"
    /\ human = NoRendering
    /\ secret = SecretKey
    /\ hasFile = [m \in Movies |-> TRUE]
    /\ episodeFiles = [x \in SeriesIds |-> 1]

NextSequential ==
    \/ \E r \in Runs : CleanupCall(r)
    \/ \E r \in Runs : ScanStep(r)
    \/ \E r \in Runs : LoopStep(r)
    \/ \E r \in Runs : RemoveStep(r)
    \/ \E r \in Runs : PruneStep(r)

SpecSequential == InitSequential /\ [][NextSequential]_vars

\* ---------------------------------------------------------------- claims
\* The files a Cleanup call has removed, the directories it has removed and
\* the adapter calls it has made.
RemovedBy(r)  == {e.path : e \in {x \in rmlog : x.run = r}}
PrunedBy(r)   == {e.path : e \in {x \in dirlog : x.run = r}}
QbitCallsBy(r) == {x \in qlog : x.run = r}

RECURSIVE SumSizes(_, _)
SumSizes(fs, keep) ==
    IF fs = <<>> THEN 0
    ELSE (IF Head(fs).Path \in keep THEN Head(fs).Size ELSE 0) + SumSizes(Tail(fs), keep)

Returned(r) == run[r].pc = "done" /\ run[r].retErr = "nil"

\* C1: at most one Cleanup call is in flight at any time, whatever the
\* interleaving of cron ticks and POST /api/cleanup requests.
AtMostOneCleanupInFlight == Cardinality(InFlight) <= 1

\* C2: a step in which a Cleanup call removes a file finds that file with
\* a hardlink count of at most one.
NoLinkedFileRemoved == [][\A e \in rmlog' \ rmlog : nlink[e.path] <= 1]_vars

\* C3: every OrphanFile FindOrphans has collected has Links = 1, and a step
\* that inspects a file appends it (with its size and Links = 1) exactly
\* when its hardlink count is 1 at that moment.
OrphanLinksAreOne ==
    \A r \in Runs : \A k \in 1..Len(run[r].orphans) : run[r].orphans[k].Links = 1

InspectionClassifies ==
    \A r \in Runs :
        (/\ run[r].pc = "scan" /\ run'[r] # run[r]
         /\ Head(run[r].todo) \in Files /\ nlink[Head(run[r].todo)] >= 1)
        => LET p == Head(run[r].todo)
           IN  run'[r].orphans =
                   IF nlink[p] = 1
                   THEN Append(run[r].orphans, [Path |-> p, Size |-> size[p], Links |-> 1])
                   ELSE run[r].orphans

FindOrphansReturnsSingleLinked == []OrphanLinksAreOne /\ [][InspectionClassifies]_vars

FindOrphansSkippedLinked ==
    \E r \in Runs : /\ run[r].pc = "loop" /\ ext = 0
                    /\ Len(run[r].orphans) = 1
                    /\ \E f \in Files : nlink[f] >= 2

\* C4: with dryRun set, no step of a Cleanup call changes a file or a
\* directory or calls the download-client adapter.
DryRunTouchesNothing ==
    [][(dryRun /\ ext' = ext) => (nlink' = nlink /\ dirs' = dirs /\ qlog' = qlog)]_vars

DryRunFoundOrphans ==
    /\ dryRun /\ qbit # "none"
    /\ \E r \in Runs : Returned(r) /\ Len(run[r].retRes[1].OrphanFiles) = 2
                                   /\ run[r].retRes[1].FreedBytes = 3

\* C5: in a returned result, FreedBytes is the sum of the sizes of the
\* orphans this call removed (of all orphans in a dry run); in a live run
\* removed orphans plus errors make up OrphanFiles, and with no error every
\* orphan file is gone.
CleanupAccounting ==
    \A r \in Runs : Returned(r) =>
        LET res == run[r].retRes[1]
            all == {res.OrphanFiles[k].Path : k \in 1..Len(res.OrphanFiles)}
        IN  IF dryRun
            THEN res.FreedBytes = SumSizes(res.OrphanFiles, all)
            ELSE /\ res.FreedBytes = SumSizes(res.OrphanFiles, RemovedBy(r))
                 /\ Cardinality(RemovedBy(r)) + Len(res.Errors) = Len(res.OrphanFiles)
                 /\ res.Errors = <<>> =>
                        /\ \A f \in all : nlink[f] = 0
                        /\ res.FreedBytes = SumSizes(res.OrphanFiles, all)

LiveCleanupRemovedAll ==
    /\ ~dryRun
    /\ \E r \in Runs : /\ Returned(r) /\ run[r].retRes[1].Errors = <<>>
                       /\ Len(run[r].retRes[1].OrphanFiles) = 2
                       /\ run[r].retRes[1].FreedBytes = 3

\* The next step of the call r is os.Remove on its current orphan.
CallsRemove(r) == run[r].pc = "remove" \/ (run[r].pc = "loop" /\ ~dryRun /\ qbit = "none")

\* C6: in a live run, an iteration whose os.Remove fails appends exactly
\* that one error, adds nothing to FreedBytes and moves on to the next
\* orphan; the call still returns its result with a nil error after one
\* iteration per orphan.
RemoveFailureStep ==
    \A r \in Runs :
        (/\ CallsRemove(r) /\ run'[r] # run[r]
         /\ RemoveFails(run[r].orphans[run[r].i].Path))
        => /\ run'[r].result.Errors = Append(run[r].result.Errors, run[r].orphans[run[r].i].Path)
           /\ run'[r].result.FreedBytes = run[r].result.FreedBytes
           /\ run'[r].i = run[r].i + 1
           /\ run'[r].retErr # "err"

LoopRunsToTheEnd ==
    \A r \in Runs :
        (run[r].pc \in {"prune", "done"} /\ ~run[r].scanErr)
        => /\ run[r].result.ScannedFiles = Len(run[r].orphans)
           /\ run[r].pc = "done" => run[r].retErr = "nil" /\ run[r].retRes = <<run[r].result>>

RemoveFailureIsPerFile == []LoopRunsToTheEnd /\ [][RemoveFailureStep]_vars

LaterOrphanRemovedAfterFailure ==
    \E r \in Runs : /\ Returned(r) /\ ~dryRun
                    /\ run[r].retRes[1].Errors = <<"/dl/a.mkv">>
                    /\ RemovedBy(r) = {"/dl/d/e/c.mkv"}
                    /\ run[r].retRes[1].FreedBytes = 2

\* C7: a Cleanup call whose scan failed returns an error and a nil result,
\* and has removed no file, pruned no directory and called no adapter.
ScanFailureStopsCleanup ==
    \A r \in Runs : run[r].scanErr =>
        /\ run[r].pc = "done" /\ run[r].retErr = "err" /\ run[r].retRes = <<>>
        /\ RemovedBy(r) = {} /\ PrunedBy(r) = {} /\ QbitCallsBy(r) = {}

ScanFailedAfterFindingOrphan ==
    \E r \in Runs : run[r].scanErr /\ Len(run[r].orphans) = 1 /\ ~dryRun /\ qbit # "none"

\* What a sender that knows the secret puts in X-Jellyfin-Signature: the
\* lowercase hexadecimal HMAC of the exact raw body.
ExpectedSignature(body) == HexEncode(Hmac(secret, body))

\* The notification handled last passed authentication.
Authenticated == secret = <<>> \/ last.header = ExpectedSignature(last.body)

\* The event name is one of the fixed deletion names, in any letter case.
NamesDeletion(event) == ToLower(event) \in {EvLibraryDeleted, EvItemDeleted, EvPlaybackStop}

\* C8: with a secret configured, a notification whose signature header is
\* absent or is not the lowercase-hex HMAC of its raw body is answered 401
\* without the JSON decoder being called, and the step starts no goroutine
\* and changes nothing in the catalogs.
UnauthorizedIsRejected ==
    [][(/\ nreq' = nreq + 1
        /\ secret # <<>>
        /\ last'.header = <<>> \/ last'.header # HexEncode(Hmac(secret, last'.body)))
       => /\ last'.status = 401
          /\ last'.parsed = <<>>
          /\ last'.inv = 0
          /\ coord' = coord
          /\ UNCHANGED <<monitoredMovies, monitoredSeries>>]_vars

TamperedDeletionRejected ==
    /\ secret # <<>> /\ last.status = 401 /\ last.header # <<>>
    /\ \E c \in OneByteOff(last.body) : last.header = HexEncode(Hmac(secret, c))
    /\ WellFormed(last.body) /\ NamesDeletion(Decode(last.body).Event)

\* C9: a notification that passed authentication, with a well-formed body
\* and a deletion event name, is answered "processing" and handed to one
\* goroutine, and the body given to the JSON decoder is the body verified.
AuthenticatedDeletionIsProcessed ==
    (/\ last.status # 0 /\ Authenticated
     /\ WellFormed(last.body) /\ NamesDeletion(Decode(last.body).Event))
    => /\ last.msg = "processing"
       /\ last.parsed = <<last.body>>
       /\ last.inv = nreq /\ coord[last.inv].pc # "none"

\* C10: the event name alone decides the outcome of an authenticated,
\* well-formed notification: a name that is no deletion name gives
\* "ignored" and no goroutine, a deletion name in any letter case gives
\* "processing".
EventNameDecidesOutcome ==
    (last.status # 0 /\ Authenticated /\ WellFormed(last.body))
    => IF NamesDeletion(Decode(last.body).Event)
       THEN last.msg = "processing" /\ last.inv # 0
       ELSE last.msg = "ignored" /\ last.inv = 0

\* The Coordinator invocations (the goroutines started by go h.dispatch),
\* the lowercased item kind of one, and the positions of its calls of one
\* operation in the order it made them.
Invocations == {i \in 1..MaxReqs : coord[i].pc # "none"}
Kind(i) == ToLower(coord[i].itemType)
CallsOf(i, op) == {k \in 1..Len(coord[i].calls) : coord[i].calls[k].op = op}
UnmonitoredBy(i) == {coord[i].calls[k].id : k \in CallsOf(i, "unmonitor")}

\* What the catalogs hold: the movies with no file, the series with no
\* episode file.
MissingMovies == {m \in Movies : hasFile[m] = FALSE}
EmptySeries == {x \in SeriesIds : episodeFiles[x] = 0}

\* C11: an invocation for kind Movie (any letter case) calls only the movie
\* adapter: first one rescan, never a second; then, the rescan having
\* succeeded, one missing-movies query as its second call; after that only
\* unmonitor calls, each for a movie with hasFile = FALSE and no movie
\* twice; and once it has ended after a successful query, every such movie
\* has had its call.
MovieDeletionFlow ==
    \A i \in Invocations : Kind(i) = TyMovie =>
        LET c == coord[i].calls
        IN  /\ \A k \in 1..Len(c) : c[k].svc = "radarr"
            /\ coord[i].pc # "start" => Cardinality(CallsOf(i, "rescan")) = 1 /\ c[1].op = "rescan"
            /\ \A k \in CallsOf(i, "query") : k = 2 /\ c[1].ok
            /\ coord[i].pc = "done" /\ c[1].ok => CallsOf(i, "query") = {2}
            /\ \A k \in CallsOf(i, "unmonitor") :
                   /\ k > 2 /\ c[2].op = "query" /\ c[2].ok
                   /\ c[k].id \in MissingMovies
                   /\ \A j \in CallsOf(i, "unmonitor") : c[j].id = c[k].id => j = k
            /\ coord[i].pc = "done" /\ Len(c) >= 2 /\ c[2].ok => UnmonitoredBy(i) = MissingMovies

MovieInvocationUnmonitoredTwo ==
    \E i \in Invocations :
        /\ coord[i].itemType # TyMovie /\ Kind(i) = TyMovie /\ coord[i].pc = "done"
        /\ Len(coord[i].calls) = 4 /\ UnmonitoredBy(i) = {1, 2}
        /\ monitoredMovies = {}

\* C12: an invocation for kind Episode or Series calls only the series
\* adapter, with exactly one rescan; every unmonitor call is for a series
\* with no episode file, and once it has ended after a successful query
\* every such series has had its call; a series with an episode file stays
\* monitored.
SeriesDeletionFlow ==
    /\ \A i \in Invocations : Kind(i) \in {TyEpisode, TySeries} =>
           LET c == coord[i].calls
           IN  /\ \A k \in 1..Len(c) : c[k].svc = "sonarr"
               /\ coord[i].pc # "start" => Cardinality(CallsOf(i, "rescan")) = 1 /\ c[1].op = "rescan"
               /\ UnmonitoredBy(i) \subseteq EmptySeries
               /\ coord[i].pc = "done" /\ Len(c) >= 2 /\ c[2].ok => UnmonitoredBy(i) = EmptySeries
    /\ \A x \in SeriesIds : episodeFiles[x] >= 1 => x \in monitoredSeries

SeriesInvocationSparedOne ==
    \E i \in Invocations :
        /\ Kind(i) = TyEpisode /\ coord[i].pc = "done"
        /\ episodeFiles[2] >= 1 /\ UnmonitoredBy(i) = {1}
        /\ monitoredSeries = {2}

\* C13: a failed rescan is the last call of its invocation, and so is a
\* failed query; no invocation makes a second rescan or a second query.
FailureEndsInvocation ==
    \A i \in Invocations :
        LET c == coord[i].calls
        IN  /\ Cardinality(CallsOf(i, "rescan")) <= 1
            /\ Cardinality(CallsOf(i, "query")) <= 1
            /\ \A k \in 1..Len(c) :
                   (c[k].op \in {"rescan", "query"} /\ ~c[k].ok)
                   => coord[i].pc = "done" /\ Len(c) = k

RescanAndQueryFailed ==
    /\ MissingMovies # {} /\ EmptySeries # {}
    /\ \E i, j \in Invocations :
           /\ coord[i].pc = "done" /\ Len(coord[i].calls) = 1 /\ ~coord[i].calls[1].ok
           /\ coord[j].pc = "done" /\ Len(coord[j].calls) = 2 /\ ~coord[j].calls[2].ok

\* C14: an invocation that has ended after a successful rescan and a
\* successful query has made exactly one unmonitor call for every item the
\* query returned, whatever the outcome of the calls before it.
EveryItemGetsOneAttempt ==
    \A i \in Invocations :
        LET c == coord[i].calls
        IN  (coord[i].pc = "done" /\ Len(c) >= 2 /\ c[1].ok /\ c[2].ok)
            => /\ Len(c) = 2 + Len(coord[i].list)
               /\ \A n \in 1..Len(coord[i].list) :
                      c[2 + n].op = "unmonitor" /\ c[2 + n].id = coord[i].list[n]
               /\ coord[i].list = IF Kind(i) = TyMovie THEN Ascending(MissingMovies)
                                                       ELSE Ascending(EmptySeries)

SecondItemTriedAfterFailure ==
    \E i \in Invocations :
        /\ coord[i].pc = "done" /\ Len(coord[i].calls) = 4
        /\ ~coord[i].calls[3].ok /\ coord[i].calls[4].op = "unmonitor"

\* C15: an invocation whose item kind is none of movie, episode, series
\* (letter case ignored) makes no adapter call at all, and a step of it
\* leaves both catalogs as they are.
UnknownKindMakesNoCall ==
    \A i \in Invocations :
        Kind(i) \notin {TyMovie, TyEpisode, TySeries} => coord[i].calls = <<>> /\ coord[i].list = <<>>

UnknownKindStep ==
    \A i \in 1..MaxReqs :
        (coord'[i] # coord[i] /\ coord[i].pc # "none" /\ Kind(i) \notin {TyMovie, TyEpisode, TySeries})
        => /\ coord'[i] = [coord[i] EXCEPT !.pc = "done"]
           /\ UNCHANGED <<monitoredMovies, monitoredSeries, hasFile, episodeFiles>>

UnknownKindIsDropped == []UnknownKindMakesNoCall /\ [][UnknownKindStep]_vars

UnknownKindDropped ==
    \E i \in Invocations :
        /\ Kind(i) \notin {TyMovie, TyEpisode, TySeries}
        /\ coord[i].pc = "done" /\ last.msg = "processing"

\* C16: on the three routes that start work, the response is written once
\* the goroutine is started, whatever that goroutine does or fails to do:
\* every request whose goroutine is started is eventually answered although
\* no goroutine is ever required to take a step; the response is the
\* route's fixed acknowledgment; and no step of a goroutine changes an
\* exchange.
Acknowledged ==
    \A h \in 1..MaxHttp :
        http[h].pc = "responded" =>
            /\ http[h].route = "/webhook/jellyfin" => http[h].status = 200 /\ http[h].msg = "processing"
            /\ http[h].route = "/api/cleanup" => http[h].status = 202 /\ http[h].msg = "cleanup started"
            /\ http[h].route = "/api/rescan" => http[h].status = 202 /\ http[h].msg = "rescan started"

WorkLeavesExchange ==
    (coord' # coord \/ run' # run \/ rescan' # rescan)
    => \A h \in 1..MaxHttp : http[h].pc # "none" => http'[h] = http[h]

ResponseNeverAwaitsWork ==
    /\ []Acknowledged
    /\ [][WorkLeavesExchange]_vars
    /\ \A h \in 1..MaxHttp : (http[h].pc = "go") ~> (http[h].pc = "responded")

AnsweredWhileWorkPending ==
    \E h, g \in 1..MaxHttp :
        /\ http[h].pc = "responded" /\ http[g].pc = "responded"
        /\ http[h].route = "/api/cleanup" /\ run[http[h].job].pc = "scan"
        /\ http[g].route = "/api/rescan" /\ rescan[http[g].job].pc = "done"
        /\ ~rescan[http[g].job].calls[1].ok

\* C20: in a live run with an adapter, every adapter call has
\* deleteFiles = FALSE and every removed file had its call; the step that
\* calls the adapter for an orphan touches no file, adds nothing to Errors
\* and leaves os.Remove on that orphan as the call's next step, whether
\* the adapter answered or failed; the os.Remove step comes after the
\* adapter call for the same orphan and its outcome depends on the
\* filesystem alone.
AdapterCalledForEveryRemoval ==
    /\ \A q \in qlog : q.deleteFiles = FALSE /\ ~dryRun
    /\ qbit # "none" => \A e \in rmlog : \E q \in qlog : q.run = e.run /\ q.path = e.path
    /\ \A r \in Runs : (Returned(r) /\ ~dryRun /\ qbit # "none") =>
           LET res == run[r].retRes[1]
           IN  {q.path : q \in QbitCallsBy(r)} = {res.OrphanFiles[k].Path : k \in 1..Len(res.OrphanFiles)}

AdapterCallStep ==
    \A r \in Runs :
        (run[r].pc = "loop" /\ run'[r] # run[r] /\ ~dryRun /\ qbit # "none")
        => LET p == run[r].orphans[run[r].i].Path
           IN  /\ \E q \in qlog' : q.run = r /\ q.path = p /\ q.ok = (qbit = "up" /\ \E k \in 1..Len(torrents) : MatchesTorrent(torrents[k], p))
               /\ nlink' = nlink /\ rmlog' = rmlog
               /\ run'[r].pc = "remove" /\ run'[r].i = run[r].i
               /\ run'[r].result.Errors = run[r].result.Errors

RemovalAfterAdapterStep ==
    \A r \in Runs :
        (run[r].pc = "remove" /\ run'[r] # run[r])
        => LET p == run[r].orphans[run[r].i].Path
           IN  /\ \E q \in qlog : q.run = r /\ q.path = p
               /\ IF nlink[p] = 0 \/ p \in locked
                  THEN /\ run'[r].result.Errors = Append(run[r].result.Errors, p)
                       /\ nlink' = nlink
                  ELSE /\ run'[r].result.Errors = run[r].result.Errors
                       /\ nlink'[p] = 0 /\ [run |-> r, path |-> p] \in rmlog'

ResultOf(r) == run[r].retRes[1]

\* The call r found no orphan, removed no file and reports no freed byte.
FoundNothing(r) ==
    /\ ResultOf(r).OrphanFiles = <<>>
    /\ ResultOf(r).FreedBytes = 0
    /\ RemovedBy(r) = {}

\* C17: of two live Cleanup calls made one right after the other, with no
\* other change to the tree, the second finds no orphan, removes nothing
\* and reports zero freed bytes.
SecondRunFindsNothing ==
    \A r \in Runs : (r > 1 /\ Returned(r - 1) /\ Returned(r)) => FoundNothing(r)

\* C17, amended: the same, for a first call that reported no error.
SecondRunFindsNothingAfterCleanRun ==
    \A r \in Runs :
        (r > 1 /\ Returned(r - 1) /\ Returned(r) /\ ResultOf(r - 1).Errors = <<>>) => FoundNothing(r)

SecondRunAfterRemovingAll ==
    /\ Returned(1) /\ Returned(2)
    /\ ResultOf(1).Errors = <<>> /\ RemovedBy(1) = Files /\ ResultOf(1).FreedBytes = 3
    /\ ResultOf(2).ScannedFiles = 0

\* C18: while every file of the tree has more than one hardlink, no step
\* of a live Cleanup call removes a file, no call collects an orphan, and
\* a call that returns hands back an empty orphan list, zero FreedBytes,
\* no errors and a nil error.
EveryFileLinked == \A f \in Files : nlink[f] > 1

LinkedTreeResult ==
    EveryFileLinked =>
        /\ rmlog = {}
        /\ \A r \in Runs :
               /\ run[r].orphans = <<>>
               /\ run[r].pc = "done" =>
                      /\ run[r].retErr = "nil"
                      /\ ResultOf(r).OrphanFiles = <<>>
                      /\ ResultOf(r).FreedBytes = 0
                      /\ ResultOf(r).Errors = <<>>

LinkedTreeIsLeftAlone ==
    []LinkedTreeResult /\ [][EveryFileLinked => (nlink' = nlink /\ rmlog' = rmlog)]_vars

LinkedTreeCleaned ==
    /\ EveryFileLinked /\ ~dryRun /\ qbit # "none"
    /\ Returned(1) /\ ResultOf(1) = EmptyResult

\* C19: once a live Cleanup call that removed a file has returned with no
\* error, the filesystem refusing nothing, no directory under the root
\* other than the root is empty.
NoEmptyDirRemains ==
    \A r \in Runs :
        (/\ Returned(r) /\ ~dryRun /\ locked = {}
         /\ ResultOf(r).Errors = <<>> /\ RemovedBy(r) # {}
         /\ \A q \in Runs : q > r => run[q].pc = "idle")
        => \A d \in dirs \ {RootDir} : ReadDir(d) # <<>>


\* C21: while a Cleanup call is in flight, the scan of GET /api/stats is not
\* running (the status endpoint is subject to the same mutual exclusion).
StatsScanExcludesCleanup == ~(stats.scan.pc = "scan" /\ InFlight # {})

\* C22: once SIGINT or SIGTERM has been taken, no step of a Cleanup call
\* removes a file (and no removal already made is undone).
NoDeletionAfterSignal == [][phase # "running" => rmlog' = rmlog]_vars

\* The adapter methods a reconciliation goroutine may call.
CatalogOps == {"rescan", "query", "unmonitor"}

CoordinatorCallsAreCatalogOps ==
    \A i \in 1..MaxReqs : \A k \in 1..Len(coord[i].calls) :
        /\ coord[i].calls[k].svc \in {"radarr", "sonarr"}
        /\ coord[i].calls[k].op \in CatalogOps

\* A step of a reconciliation goroutine leaves every file, directory and
\* transfer as it is and makes no call to the download client.
CoordinatorStepTouchesNoFile ==
    coord' # coord
    => UNCHANGED <<nlink, dirs, torrents, rmlog, dirlog, qlog, run>>

\* A step of a Cleanup call leaves the catalogs as they are and makes no
\* adapter call of a reconciliation goroutine or of POST /api/rescan.
CleanupStepTouchesNoCatalog ==
    run' # run
    => UNCHANGED <<coord, rescan, hasFile, episodeFiles, monitoredMovies, monitoredSeries>>

\* C23: no reconciliation goroutine removes a file or a directory, calls
\* the download client or calls a catalog delete operation (it only
\* rescans, queries and unmonitors), and no Cleanup call changes a catalog
\* or makes a catalog adapter call.
FlowsAreDecoupled ==
    /\ []CoordinatorCallsAreCatalogOps
    /\ [][CoordinatorStepTouchesNoFile /\ CleanupStepTouchesNoCatalog]_vars

BothFlowsRan ==
    /\ \E i \in 1..MaxReqs : coord[i].pc = "done" /\ CallsOf(i, "unmonitor") # {}
    /\ \E r \in Runs : run[r].pc = "done" /\ RemovedBy(r) # {}

\* The items the query of invocation i returns over the catalog as it is.
ListOf(i) == IF Route(coord[i].itemType) = "radarr" THEN GetMissingMovies ELSE GetEmptySeries

\* The adapter calls invocation i has made are those it makes when it runs
\* alone: a rescan, then if it succeeded a query, then if that succeeded
\* one unmonitor per listed item, in the order of the list; nothing for a
\* kind that is dropped.
RunsAsAlone(i) ==
    LET c   == coord[i].calls
        svc == Route(coord[i].itemType)
    IN  /\ coord[i].pc = "none" => c = <<>>
        /\ coord[i].pc # "none" /\ svc = "drop" => c = <<>>
        /\ \A k \in 1..Len(c) :
              /\ c[k].svc = svc
              /\ k = 1 => c[k].op = "rescan"
              /\ k = 2 => c[k].op = "query" /\ c[1].ok
              /\ k > 2 => /\ c[2].ok /\ k - 2 <= Len(ListOf(i))
                          /\ c[k].op = "unmonitor" /\ c[k].id = ListOf(i)[k - 2]
        /\ coord[i].pc = "done" /\ svc # "drop"
           => Len(c) = IF ~c[1].ok THEN 1 ELSE IF ~c[2].ok THEN 2 ELSE 2 + Len(ListOf(i))

\* The items of a catalog some invocation has unmonitored with success.
UnmonitoredOf(svc) ==
    {coord[i].calls[k].id : <<i, k>> \in
        {x \in (1..MaxReqs) \X (1..(2 + Cardinality(Movies \cup SeriesIds))) :
            /\ x[2] <= Len(coord[x[1]].calls)
            /\ coord[x[1]].calls[x[2]].svc = svc
            /\ coord[x[1]].calls[x[2]].op = "unmonitor"
            /\ coord[x[1]].calls[x[2]].ok}}

\* C24: however the invocations interleave, each makes the adapter calls
\* it makes alone, and the monitored items are those no invocation has
\* unmonitored with success, as when they run one after another.
ConcurrentInvocationsAreIndependent ==
    /\ \A i \in 1..MaxReqs : RunsAsAlone(i)
    /\ monitoredMovies = Movies \ UnmonitoredOf("radarr")
    /\ monitoredSeries = SeriesIds \ UnmonitoredOf("sonarr")

TwoInvocationsWroteSameMovie ==
    /\ coord[1].pc = "done" /\ coord[2].pc = "done"
    /\ \A i \in {1, 2} : Len(coord[i].calls) = 4 /\ coord[i].calls[3].ok /\ coord[i].calls[3].svc = "radarr"
    /\ coord[2].held /\ coord[1].held

Rendered == human.text # <<>>

Text(b) == FreedBytesHuman(b)

\* C25: a byte count under 1024 is rendered as the integer and " B"; any
\* other, up to the int64 maximum, with one decimal and a letter of
\* "KMGTPE" that is in the table, the number shown being at least 1 and
\* less than 1024 (the largest unit that keeps it so); 500 gives "500 B",
\* 1024 "1.0 KB", 1536 "1.5 KB" and 1073741824 "1.0 GB".
FreedBytesHumanPicksLargestUnit ==
    /\ Text(<<500>>) = [whole |-> 500, tenth |-> <<>>, unit |-> "", exp |-> 0]
    /\ Text(<<1, 0>>) = [whole |-> 1, tenth |-> <<0>>, unit |-> "K", exp |-> 0]
    /\ Text(<<1, 512>>) = [whole |-> 1, tenth |-> <<5>>, unit |-> "K", exp |-> 0]
    /\ Text(<<1, 0, 0, 0>>) = [whole |-> 1, tenth |-> <<0>>, unit |-> "G", exp |-> 2]
    /\ Rendered =>
          LET b == human.b
              t == human.text[1]
          IN  IF Len(b) = 1
              THEN t = [whole |-> b[1], tenth |-> <<>>, unit |-> "", exp |-> 0]
              ELSE /\ t.exp \in 0..(Len(UnitLetters) - 1)
                   /\ t.unit = UnitLetters[t.exp + 1]
                   /\ Len(t.tenth) = 1
                   /\ t.whole >= 1 /\ t.whole < Unit

\* The walk cannot list the directory p or cannot stat the file p.
CannotInspect(p) == IF p \in Dirs THEN ReadDirFails(p) ELSE StatFails(p)

\* A scan that failed handed no orphan list to its caller: Cleanup returned
\* (nil, err) having removed nothing, GET /api/stats answered 500 with no
\* count and no size.
FailedScanYieldsNoList ==
    /\ \A r \in Runs :
          run[r].scanErr => /\ run[r].pc = "done" /\ run[r].retErr = "err" /\ run[r].retRes = <<>>
                            /\ run[r].result.OrphanFiles = <<>> /\ RemovedBy(r) = {}
    /\ stats.scan.scanErr => stats.status = 500 /\ stats.count = 0 /\ stats.raw = 0
    /\ stats.status = 200 => ~stats.scan.scanErr

\* The callback that meets an entry it cannot inspect ends the scan with
\* an error.
UninspectableEntryStep ==
    /\ \A r \in Runs :
          (run[r].pc = "scan" /\ run'[r] # run[r] /\ CannotInspect(Head(run[r].todo)))
          => run'[r].scanErr
    /\ (stats.scan.pc = "scan" /\ stats' # stats /\ CannotInspect(Head(stats.scan.todo)))
       => stats'.scan.scanErr /\ stats'.status = 500

\* C26: an entry that cannot be read or inspected during a scan (the OS
\* refuses, or another actor removed it after it was listed) makes
\* FindOrphans fail, and the caller gets no orphan list: Cleanup fails and
\* GET /api/stats reports the failure; the entry is never skipped.
UnreadableEntryFailsTheScan == []FailedScanYieldsNoList /\ [][UninspectableEntryStep]_vars

StatsFailedOnVanishedFile ==
    /\ denied = {} /\ rmlog = {}
    /\ stats.status = 500 /\ Len(stats.scan.orphans) = 1

\* C27: every path FindOrphans returns, and every path Cleanup removes,
\* names a regular file; a symbolic link is never returned or removed.
OnlyRegularFilesAreCandidates ==
    /\ \A r \in Runs : \A k \in 1..Len(run[r].orphans) : kind[run[r].orphans[k].Path] = "regular"
    /\ \A e \in rmlog : kind[e.path] = "regular"

\* The download directory is there and no Cleanup call has removed it.
RootDirStays == RootDir \in dirs /\ \A e \in dirlog : e.path # RootDir

\* A step of removeEmptyDirs leaves the result as it is, and the call it
\* ends returns that result with a nil error, whether the walk removed a
\* directory, failed to, or found none to remove.
PruneStepKeepsResult ==
    \A r \in Runs :
        (run[r].pc = "prune" /\ run'[r] # run[r])
        => /\ run'[r].result = run[r].result
           /\ run'[r].pc \in {"prune", "done"}
           /\ run'[r].pc = "done" => run'[r].retErr = "nil" /\ run'[r].retRes = <<run[r].result>>

\* C28: no Cleanup call removes the download directory itself, even once
\* it is empty, and a failure while pruning empty directories changes
\* neither the returned result nor the nil error.
RootDirIsNeverPruned == []RootDirStays /\ [][PruneStepKeepsResult]_vars

RootDirLeftEmpty ==
    /\ Returned(1) /\ RemovedBy(1) = {"/dl/a.mkv"}
    /\ ReadDir(RootDir) = <<>> /\ RootDir \in dirs

\* C29: in every result Cleanup returns, dry run or live, ScannedFiles is
\* the length of OrphanFiles: files with other hardlinks, which the walk
\* visits and does not collect, are not counted.
ScannedFilesCountsOrphans ==
    \A r \in Runs :
        Returned(r) => /\ ResultOf(r).ScannedFiles = Len(ResultOf(r).OrphanFiles)
                       /\ \A k \in 1..Len(ResultOf(r).OrphanFiles) : ResultOf(r).OrphanFiles[k].Links = 1

ReferencedFileNotCounted ==
    /\ Returned(1) /\ ResultOf(1).ScannedFiles = 1
    /\ nlink["/dl/a.mkv"] = 2 /\ ext = 0

\* The content path of the transfer a hash names.
ContentPathOf(h) == (CHOOSE t \in {TorrentA, TorrentD} : t.Hash = h).ContentPath

\* C30: every transfer a live Cleanup call had the download client remove
\* is one whose own content path contains the orphan the call was
\* processing; a transfer that only shares the save directory stays.
TransferRemovedOnlyForItsOrphan ==
    \A q \in qlog :
        q.Hash # "" => HasPrefix(Bytes(q.path), Bytes(ContentPathOf(q.Hash)))

\* The orphans whose iteration the call r has completed, and the paths its
\* result reports an error for.
ProcessedBy(r) == {run[r].orphans[k].Path : k \in 1..(run[r].i - 1)}

ErrorsOf(r) == {run[r].result.Errors[k] : k \in 1..Len(run[r].result.Errors)}

\* C31: in a live cleaner, however the Cleanup calls overlap, a file is
\* removed by at most one call, FreedBytes of a call is the sum of the
\* sizes of the files that call removed itself (so a size is counted by
\* at most one call), and a call that found the file already gone has an
\* error for it in its result instead.
OverlappingRunsRemoveOnce ==
    ~dryRun =>
        /\ \A e1 \in rmlog : \A e2 \in rmlog : e1.path = e2.path => e1.run = e2.run
        /\ \A r \in Runs :
               /\ run[r].result.FreedBytes = SumSizes(run[r].orphans, RemovedBy(r))
               /\ ~run[r].scanErr =>
                      /\ RemovedBy(r) \cup ErrorsOf(r) = ProcessedBy(r)
                      /\ RemovedBy(r) \cap ErrorsOf(r) = {}

LoserOfRaceRecordedError ==
    /\ ~dryRun /\ ext = 0 /\ locked = {}
    /\ Returned(1) /\ Returned(2)
    /\ \E w \in {1, 2} :
          /\ RemovedBy(w) = {"/dl/a.mkv"} /\ ResultOf(w).FreedBytes = 1
          /\ ErrorsOf(3 - w) = {"/dl/a.mkv"} /\ ResultOf(3 - w).FreedBytes = 0

=============================================================================
